---- MODULE Spec2Model ----
(***************************************************************************)
(* Model of IncrementalMerkleTree<HEIGHT> (src/src/incremental_tree.rs).   *)
(*                                                                         *)
(* A digest (B256) is modelled as a term: a caller-supplied leaf is the    *)
(* 1-tuple <<n>>, the all-zero digest B256::default() is <<0>>, and        *)
(* keccak256 of the 64-byte concatenation of two digests is the 2-tuple of *)
(* the two terms, i.e. an uninterpreted, collision-free pairing function.  *)
(* usize arithmetic is modelled on unbounded naturals; the guards keep     *)
(* every counter far below 2^64, so no wrap-around is reachable.           *)
(***************************************************************************)
EXTENDS Integers, Sequences, FiniteSets, TLC

\* Largest HEIGHT const-generic instantiation explored (0..MaxHeight).
MaxHeight == 2
\* Leaves are drawn from the digests <<0>> .. <<MaxLeaf>>; <<0>> is the zero digest.
MaxLeaf == 2
\* Number of append calls explored beyond the capacity of the tree.
MaxFailed == 2
\* Number of consecutive root() calls explored between two appends.
MaxRoots == 2

VARIABLES
    HEIGHT,         \* the const generic parameter of the instance
    zero_hashes,    \* [B256; HEIGHT]
    active_branch,  \* [B256; HEIGHT]
    size,           \* usize
    intermediates,  \* Vec<B256>
    cache_valid,    \* bool
    op,             \* last call made on the instance: "new", "append", "root"
    result,         \* return value of the last append call ("None" before the first)
    root_ret,       \* digest returned by the last root call
    leaves,         \* history: the leaves of the append calls that returned Ok
    calls,          \* history: number of append calls made so far
    roots           \* history: number of root calls since the last new/append

fields == <<HEIGHT, zero_hashes, active_branch, size, intermediates, cache_valid>>
vars == <<HEIGHT, zero_hashes, active_branch, size, intermediates, cache_valid,
          op, result, root_ret, leaves, calls, roots>>

---------------------------------------------------------------------------
\* Digests and the hash primitive

\* B256::default()
ZERO_DIGEST == <<0>>

Heights == 0..MaxHeight
Leaves == {<<n>> : n \in 0..MaxLeaf}

\* keccak256(hash_buf) with hash_buf[..32] = a and hash_buf[32..] = b
hash(a, b) == <<a, b>>

RECURSIVE Shl(_, _)
\* x << n on usize
Shl(x, n) == IF n = 0 THEN x ELSE 2 * Shl(x, n - 1)

---------------------------------------------------------------------------
\* new()

RECURSIVE zero_hash_at_no_hash(_)
\* zero_hash_at copying zero_hashes[height-1] up without hashing it
zero_hash_at_no_hash(height) ==
    IF height = 0 THEN ZERO_DIGEST
    ELSE zero_hash_at_no_hash(height - 1)

RECURSIVE zero_hash_at(_)
\* Value left in zero_hashes[height] by the (1..HEIGHT).for_each loop of new()
zero_hash_at(height) ==
    IF height = 0 THEN ZERO_DIGEST
    ELSE hash(zero_hash_at(height - 1), zero_hash_at(height - 1))

\* The zero_hashes array built by new()
zero_hashes_new(H) == [height \in 0..(H - 1) |-> zero_hash_at(height)]

\* vec![B256::default(); (1 << (HEIGHT as u32 + 1)) - 1]
intermediates_new(H) == [i \in 0..(Shl(1, H + 1) - 2) |-> ZERO_DIGEST]

\* new() constructing the instance with cache_valid: true
new_cache_valid(H) ==
    [HEIGHT        |-> H,
     zero_hashes   |-> zero_hashes_new(H),
     active_branch |-> [height \in 0..(H - 1) |-> ZERO_DIGEST],
     size          |-> 0,
     intermediates |-> intermediates_new(H),
     cache_valid   |-> TRUE]

\* IncrementalMerkleTree::<H>::new()
new(H) ==
    [HEIGHT        |-> H,
     zero_hashes   |-> zero_hashes_new(H),
     active_branch |-> [height \in 0..(H - 1) |-> ZERO_DIGEST],
     size          |-> 0,
     intermediates |-> intermediates_new(H),
     cache_valid   |-> FALSE]

---------------------------------------------------------------------------
\* root(&self)

\* root_step with the two halves of hash_buf exchanged in the odd case
root_step_swapped(self, sz, tree_root, height) ==
    IF sz % 2 = 1
    THEN hash(tree_root, self.active_branch[height])
    ELSE hash(tree_root, self.zero_hashes[height])

\* root_step pairing with zero_hashes[0] at every height in the even case
root_step_zero0(self, sz, tree_root, height) ==
    IF sz % 2 = 1
    THEN hash(self.active_branch[height], tree_root)
    ELSE hash(tree_root, self.zero_hashes[0])

\* root_step copying zero_hashes instead of active_branch in the odd case
root_step_no_branch(self, sz, tree_root, height) ==
    IF sz % 2 = 1
    THEN hash(self.zero_hashes[height], tree_root)
    ELSE hash(tree_root, self.zero_hashes[height])

\* root_step copying active_branch instead of zero_hashes in the even case
root_step_even_branch(self, sz, tree_root, height) ==
    IF sz % 2 = 1
    THEN hash(self.active_branch[height], tree_root)
    ELSE hash(tree_root, self.active_branch[height])

\* One application of the fold closure of root(): the digest it returns for
\* the given running `size`, accumulator `tree_root` and `height`
root_step(self, sz, tree_root, height) ==
    IF sz % 2 = 1
    THEN hash(self.active_branch[height], tree_root)
    ELSE hash(tree_root, self.zero_hashes[height])

RECURSIVE root_fold(_, _, _, _)
\* (height..HEIGHT).fold(tree_root, ...) with the captured `size` shifted by
\* one after every step
root_fold(self, sz, tree_root, height) ==
    IF height >= self.HEIGHT THEN tree_root
    ELSE root_fold(self, sz \div 2, root_step(self, sz, tree_root, height), height + 1)

RECURSIVE root_reads_from(_, _, _)
\* Heights at which the fold of root() copies self.active_branch[height],
\* from `height` on with running size sz
root_reads_from(self, sz, height) ==
    IF height >= self.HEIGHT THEN {}
    ELSE (IF sz % 2 = 1 THEN {height} ELSE {})
            \cup root_reads_from(self, sz \div 2, height + 1)

\* Heights of the active_branch entries read by root()
root_reads(self) == root_reads_from(self, self.size, 0)

\* root_size_after when the fold shifts self.size itself instead of a copy
root_size_after_in_place(self) == self.size \div Shl(1, self.HEIGHT)

\* The value of self.size after root(&self) has run: root works on a local copy
root_size_after(self) == self.size

\* root(): the returned digest and the instance as it is after the call
root(self) ==
    [self |-> [self EXCEPT !.size = root_size_after(self)],
     ret  |-> root_fold(self, self.size, ZERO_DIGEST, 0)]

---------------------------------------------------------------------------
\* append(&mut self, leaf)

\* max_leaves without the reserved rightmost leaf: 1 << HEIGHT
max_leaves_no_reserve(H) == Shl(1, H)

\* (1 << HEIGHT) - 1, the bound of the TreeFull test
max_leaves(H) == Shl(1, H) - 1

\* tree_full testing with == against the first size beyond the capacity
tree_full_eq(sz, H) == sz = max_leaves(H) + 1

\* tree_full testing with >= instead of >
tree_full_ge(sz, H) == sz >= max_leaves(H)

\* size > (1 << HEIGHT) - 1
tree_full(sz, H) == sz > max_leaves(H)

RECURSIVE append_loop_swapped(_, _, _, _)
\* append_loop with the two halves of hash_buf exchanged
append_loop_swapped(self, sz, intermediate, height) ==
    IF height >= self.HEIGHT
    THEN [status |-> "LoopDidNotTerminate", height |-> height, intermediate |-> intermediate]
    ELSE IF sz % 2 = 1
         THEN [status |-> "Ok", height |-> height, intermediate |-> intermediate]
         ELSE append_loop_swapped(self, sz \div 2,
                                  hash(intermediate, self.active_branch[height]), height + 1)

RECURSIVE append_loop_inverted(_, _, _, _)
\* append_loop settling where the low bit is 0 instead of 1
append_loop_inverted(self, sz, intermediate, height) ==
    IF height >= self.HEIGHT
    THEN [status |-> "LoopDidNotTerminate", height |-> height, intermediate |-> intermediate]
    ELSE IF sz % 2 = 0
         THEN [status |-> "Ok", height |-> height, intermediate |-> intermediate]
         ELSE append_loop_inverted(self, sz \div 2,
                                   hash(self.active_branch[height], intermediate), height + 1)

RECURSIVE append_loop(_, _, _, _)
\* for height in height..HEIGHT { ... } of append(): where and with which
\* intermediate digest the loop ends
append_loop(self, sz, intermediate, height) ==
    IF height >= self.HEIGHT
    THEN [status |-> "LoopDidNotTerminate", height |-> height, intermediate |-> intermediate]
    ELSE IF sz % 2 = 1
         THEN [status |-> "Ok", height |-> height, intermediate |-> intermediate]
         ELSE append_loop(self, sz \div 2,
                          hash(self.active_branch[height], intermediate), height + 1)

RECURSIVE append_reads_from(_, _, _)
\* Heights at which the loop of append() copies self.active_branch[height],
\* from `height` on with running size sz
append_reads_from(self, sz, height) ==
    IF height >= self.HEIGHT \/ sz % 2 = 1 THEN {}
    ELSE {height} \cup append_reads_from(self, sz \div 2, height + 1)

\* Heights of the active_branch entries read by append()
append_reads(self) ==
    IF tree_full(self.size + 1, self.HEIGHT) THEN {}
    ELSE append_reads_from(self, self.size + 1, 0)

\* leaf_index without the offset of the leaf level: self.size - 1
leaf_index_no_offset(H, sz) == sz - 1

\* leaf_index one slot too far: (1 << HEIGHT) + self.size - 1
leaf_index_off_by_one(H, sz) == Shl(1, H) + sz - 1

\* (1 << HEIGHT) + self.size - 2, the slot of intermediates written by append
leaf_index(H, sz) == Shl(1, H) + sz - 2

\* The value of self.size when append returns TreeFull for the incremented size sz
size_on_tree_full(sz) == sz

\* append(): the returned status and the instance as it is after the call
append(self, leaf) ==
    LET sz == self.size + 1 IN
    IF tree_full(sz, self.HEIGHT)
    THEN [self |-> [self EXCEPT !.size = size_on_tree_full(sz)], ret |-> "TreeFull"]
    ELSE LET r == append_loop(self, sz, leaf, 0) IN
         IF r.status = "Ok"
         THEN [self |-> [self EXCEPT !.size = sz,
                                     !.active_branch[r.height] = r.intermediate,
                                     !.intermediates[leaf_index(self.HEIGHT, sz)] = leaf,
                                     !.cache_valid = FALSE],
               ret  |-> "Ok"]
         ELSE [self |-> [self EXCEPT !.size = sz], ret |-> "LoopDidNotTerminate"]

---------------------------------------------------------------------------
\* The state machine

\* The instance as a value
this ==
    [HEIGHT        |-> HEIGHT,
     zero_hashes   |-> zero_hashes,
     active_branch |-> active_branch,
     size          |-> size,
     intermediates |-> intermediates,
     cache_valid   |-> cache_valid]

\* The instance after the step equals the value t
Becomes(t) ==
    /\ HEIGHT' = t.HEIGHT
    /\ zero_hashes' = t.zero_hashes
    /\ active_branch' = t.active_branch
    /\ size' = t.size
    /\ intermediates' = t.intermediates
    /\ cache_valid' = t.cache_valid

Init ==
    \E H \in Heights :
        LET t == new(H) IN
        /\ HEIGHT = t.HEIGHT
        /\ zero_hashes = t.zero_hashes
        /\ active_branch = t.active_branch
        /\ size = t.size
        /\ intermediates = t.intermediates
        /\ cache_valid = t.cache_valid
        /\ op = "new"
        /\ result = "None"
        /\ root_ret = ZERO_DIGEST
        /\ leaves = <<>>
        /\ calls = 0
        /\ roots = 0

AppendCall ==
    /\ calls < max_leaves(HEIGHT) + MaxFailed
    /\ \E leaf \in Leaves :
        LET r == append(this, leaf) IN
        /\ Becomes(r.self)
        /\ op' = "append"
        /\ result' = r.ret
        /\ leaves' = IF r.ret = "Ok" THEN Append(leaves, leaf) ELSE leaves
        /\ calls' = calls + 1
        /\ roots' = 0
        /\ UNCHANGED root_ret

RootCall ==
    /\ roots < MaxRoots
    /\ LET r == root(this) IN
        /\ Becomes(r.self)
        /\ op' = "root"
        /\ root_ret' = r.ret
        /\ roots' = roots + 1
        /\ UNCHANGED <<result, leaves, calls>>

Next == AppendCall \/ RootCall

Spec == Init /\ [][Next]_vars

---------------------------------------------------------------------------
\* Reference: direct bottom-up build of a depth-H tree

\* The 2^H leaf slots: the given leaves first, the zero digest in the rest
leaf_slots(H, ls) ==
    [i \in 0..(Shl(1, H) - 1) |-> IF i < Len(ls) THEN ls[i + 1] ELSE ZERO_DIGEST]

\* The level above a level of n nodes
pair_up(level, n) ==
    [i \in 0..((n \div 2) - 1) |-> hash(level[2 * i], level[2 * i + 1])]

RECURSIVE build_up(_, _)
build_up(level, n) ==
    IF n = 1 THEN level[0] ELSE build_up(pair_up(level, n), n \div 2)

DirectRoot(H, ls) == build_up(leaf_slots(H, ls), Shl(1, H))

\* No append call has been rejected so far
AllAccepted == calls = Len(leaves)

---------------------------------------------------------------------------
\* Properties

\* C1: after appending k <= 2^H - 1 leaves to a fresh accumulator of height
\* H >= 1, root() returns the root of the direct bottom-up build of the
\* depth-H tree whose first k leaves are those leaves and whose other leaves
\* are the zero digest.
C1_RootEqualsDirectBuild ==
    (HEIGHT >= 1 /\ AllAccepted /\ op = "root")
        => root_ret = DirectRoot(HEIGHT, leaves)

C1_Witness ==
    /\ HEIGHT >= 2
    /\ AllAccepted
    /\ Len(leaves) = max_leaves(HEIGHT)
    /\ \E i \in 1..Len(leaves) : leaves[i] # ZERO_DIGEST
    /\ op = "root"
    /\ root_ret = DirectRoot(HEIGHT, leaves)

\* C2: an append (H >= 1) that returns TreeFull changes nothing: size, active_branch,
\* the cache, cache_valid and the value root() returns are as before the call.
C2_TreeFullLeavesStateUnchanged ==
    [][(HEIGHT >= 1 /\ op' = "append" /\ result' = "TreeFull")
          => (fields' = fields /\ root(this').ret = root(this).ret)]_vars

\* C3: on a fresh accumulator of height H >= 1 each of the first 2^H - 1
\* append calls returns Ok and the next append call returns TreeFull.
C3_AcceptsExactlyCapacity ==
    (HEIGHT >= 1 /\ op = "append")
        => /\ calls <= Shl(1, HEIGHT) - 1 => result = "Ok"
           /\ calls = Shl(1, HEIGHT) => result = "TreeFull"

C3_Witness ==
    /\ HEIGHT >= 2
    /\ op = "append"
    /\ calls = Shl(1, HEIGHT)
    /\ Len(leaves) = Shl(1, HEIGHT) - 1
    /\ result = "TreeFull"

\* C4: in every state reachable by append and root calls on an accumulator of
\* height H >= 1, 0 <= size <= 2^H - 1.
C4_SizeWithinCapacity ==
    HEIGHT >= 1 => (0 <= size /\ size <= Shl(1, HEIGHT) - 1)

\* C5 as stated: for H >= 1 a fresh accumulator has size 0, and root()
\* returns the zero digest whenever size = 0.
C5_EmptyRootIsZeroDigest ==
    HEIGHT >= 1
        => /\ op = "new" => size = 0
           /\ (size = 0 /\ op = "root") => root_ret = ZERO_DIGEST

\* C5 (amended): for H >= 1 a fresh accumulator has size 0, and whenever
\* size = 0 root() returns the root of the empty depth-H tree,
\* hash(zero_hashes[H-1] ++ zero_hashes[H-1]), which is not the zero digest.
C5_EmptyRootIsEmptyTreeRoot ==
    HEIGHT >= 1
        => /\ op = "new" => size = 0
           /\ (size = 0 /\ op = "root")
                 => /\ root_ret = hash(zero_hashes[HEIGHT - 1], zero_hashes[HEIGHT - 1])
                    /\ root_ret # ZERO_DIGEST

C5_Witness ==
    /\ HEIGHT >= 2
    /\ size = 0
    /\ op = "root"
    /\ root_ret = hash(zero_hashes[HEIGHT - 1], zero_hashes[HEIGHT - 1])

\* C6: a root() call changes no field of the accumulator, and a root() call
\* that directly follows another root() call returns the same digest.
C6_RootIsReadOnly ==
    [][op' = "root"
          => /\ fields' = fields
             /\ op = "root" => root_ret' = root_ret]_vars

C6_Witness ==
    /\ HEIGHT >= 2
    /\ op = "root"
    /\ roots >= 2
    /\ size >= 1

\* C7: no append call ever returns LoopDidNotTerminate, also not after
\* TreeFull has been returned.
C7_LoopAlwaysTerminates ==
    result # "LoopDidNotTerminate"

C7_Witness ==
    /\ HEIGHT >= 2
    /\ op = "append"
    /\ result = "TreeFull"
    /\ calls >= Shl(1, HEIGHT) + 1

\* C8: zero_hashes[0] is the zero digest and zero_hashes[h] is the hash of
\* zero_hashes[h-1] paired with itself for 1 <= h < H, in every reachable
\* state, and no call changes zero_hashes.
C8_ZeroHashesTable ==
    /\ [](\A h \in 0..(HEIGHT - 1) :
            zero_hashes[h] = IF h = 0 THEN ZERO_DIGEST
                             ELSE hash(zero_hashes[h - 1], zero_hashes[h - 1]))
    /\ [][zero_hashes' = zero_hashes]_vars

C8_Witness ==
    /\ HEIGHT >= 2
    /\ zero_hashes[1] = hash(ZERO_DIGEST, ZERO_DIGEST)
    /\ size >= 1
    /\ op = "root"

\* The root() of a fresh accumulator of height H after append(x), append(y)
RootAfterTwo(H, x, y) == root(append(append(new(H), x).self, y).self).ret

\* C9: for H >= 2 and leaves a # b, root() after appending a then b to a fresh
\* accumulator differs from root() after appending b then a.
C9_OrderSensitive ==
    (HEIGHT >= 2 /\ AllAccepted /\ Len(leaves) = 2 /\ leaves[1] # leaves[2] /\ op = "root")
        => root_ret # RootAfterTwo(HEIGHT, leaves[2], leaves[1])

C9_Witness ==
    /\ HEIGHT >= 2
    /\ AllAccepted
    /\ Len(leaves) = 2
    /\ leaves[1] # leaves[2]
    /\ op = "root"
    /\ root_ret = RootAfterTwo(HEIGHT, leaves[1], leaves[2])

\* C10: a successful append stores its leaf in slot 2^H + size - 2 (size after
\* the increment) of the cache and changes no other slot, so after k
\* successful appends slot 2^H - 1 + i holds leaf i for i < k and every other
\* slot holds the zero digest.
C10_LeafSlotsEager ==
    /\ [][(op' = "append" /\ result' = "Ok")
            => intermediates' =
                 [intermediates EXCEPT ![Shl(1, HEIGHT) + size' - 2] = leaves'[Len(leaves')]]]_vars
    /\ [](\A i \in DOMAIN intermediates :
            intermediates[i] =
                IF i >= Shl(1, HEIGHT) - 1 /\ i - (Shl(1, HEIGHT) - 1) < Len(leaves)
                THEN leaves[i - (Shl(1, HEIGHT) - 1) + 1]
                ELSE ZERO_DIGEST)

C10_Witness ==
    /\ HEIGHT >= 2
    /\ op = "append"
    /\ result = "Ok"
    /\ Len(leaves) = Shl(1, HEIGHT) - 1
    /\ intermediates[Shl(1, HEIGHT + 1) - 3] # ZERO_DIGEST
    /\ intermediates[Shl(1, HEIGHT + 1) - 2] = ZERO_DIGEST

---------------------------------------------------------------------------
\* Reference: complete subtrees and bits of size

\* Bit h of the number n
Bit(n, h) == (n \div Shl(1, h)) % 2

RECURSIVE LowestSetBit(_)
\* Position of the lowest set bit of n > 0
LowestSetBit(n) == IF n % 2 = 1 THEN 0 ELSE 1 + LowestSetBit(n \div 2)

RECURSIVE SubtreeRoot(_, _, _)
\* Merkle root of the complete depth-h subtree over the 2^h leaves of ls with
\* (0-based) indices start .. start + 2^h - 1
SubtreeRoot(ls, start, h) ==
    IF h = 0 THEN ls[start + 1]
    ELSE hash(SubtreeRoot(ls, start, h - 1),
              SubtreeRoot(ls, start + Shl(1, h - 1), h - 1))

\* C11: cache_valid is false after construction and after every append that
\* stores a leaf, and false in every reachable state.
C11_CacheNeverValid ==
    /\ [](cache_valid = FALSE)
    /\ [][(op' = "append" /\ result' = "Ok") => cache_valid' = FALSE]_vars

C11_Witness ==
    /\ HEIGHT >= 2
    /\ op = "append"
    /\ result = "Ok"
    /\ size >= 2
    /\ cache_valid = FALSE

\* C12: after k successful appends (k <= 2^H - 1), for every height h < H at
\* which bit h of k is 1, active_branch[h] is the Merkle root of the complete
\* depth-h subtree over the 2^h leaves starting at index
\* floor(k / 2^(h+1)) * 2^(h+1).
C12_ActiveBranchInvariant ==
    AllAccepted
        => \A h \in 0..(HEIGHT - 1) :
              Bit(size, h) = 1
                 => active_branch[h] =
                       SubtreeRoot(leaves, (size \div Shl(1, h + 1)) * Shl(1, h + 1), h)

C12_Witness ==
    /\ HEIGHT >= 2
    /\ AllAccepted
    /\ size = Shl(1, HEIGHT) - 1
    /\ \A i \in 1..Len(leaves) : leaves[i] # ZERO_DIGEST
    /\ active_branch[1] = hash(leaves[1], leaves[2])
    /\ active_branch[0] = leaves[3]

\* C13: a successful append increments size by exactly 1, writes the
\* active_branch entry at the position of the lowest set bit of the new size
\* and one cache slot, and leaves every other active_branch entry, every other
\* cache slot and zero_hashes unchanged.
C13_AppendFrame ==
    [][(op' = "append" /\ result' = "Ok")
          => /\ size' = size + 1
             /\ HEIGHT' = HEIGHT
             /\ zero_hashes' = zero_hashes
             /\ \A h \in 0..(HEIGHT - 1) :
                   h # LowestSetBit(size') => active_branch'[h] = active_branch[h]
             /\ \A i \in DOMAIN intermediates :
                   i # Shl(1, HEIGHT) + size' - 2 => intermediates'[i] = intermediates[i]
             /\ DOMAIN intermediates' = DOMAIN intermediates
             /\ cache_valid' = FALSE]_vars

C13_Witness ==
    /\ HEIGHT >= 2
    /\ op = "append"
    /\ result = "Ok"
    /\ size = 2
    /\ active_branch[0] = leaves[1]
    /\ active_branch[0] # ZERO_DIGEST
    /\ active_branch[1] = hash(leaves[1], leaves[2])

\* A digest that is neither a leaf of the model nor a hash
Poison == <<MaxLeaf + 1>>

\* The instance with the active_branch entry at height h replaced
Perturbed(h) == [this EXCEPT !.active_branch[h] = Poison]

\* Heights below HEIGHT at which the bit of the stored size is 0
StaleHeights == {h \in 0..(HEIGHT - 1) : Bit(size, h) = 0}

\* C14: root() and append() read active_branch[h] only at heights h where
\* bit h of the size stored before the call is 1, so the digest root() returns
\* and everything append() returns and writes are the same when an entry at a
\* height whose size bit is 0 holds another value.
C14_StaleEntriesNeverRead ==
    /\ \A h \in root_reads(this) \cup append_reads(this) : Bit(size, h) = 1
    /\ \A h \in StaleHeights :
          /\ root(Perturbed(h)).ret = root(this).ret
          /\ \A leaf \in Leaves :
                LET a == append(this, leaf)
                    b == append(Perturbed(h), leaf)
                IN  /\ b.ret = a.ret
                    /\ b.self.size = a.self.size
                    /\ b.self.intermediates = a.self.intermediates
                    /\ \A g \in 0..(HEIGHT - 1) :
                          \/ b.self.active_branch[g] = a.self.active_branch[g]
                          \/ /\ g = h
                             /\ b.self.active_branch[g] = Poison
                             /\ a.self.active_branch[g] = active_branch[g]

C14_Witness ==
    /\ HEIGHT >= 2
    /\ size = 2
    /\ op = "root"
    /\ 0 \in StaleHeights
    /\ active_branch[0] # ZERO_DIGEST
    /\ root_reads(this) = {1}
    /\ root_ret = root(Perturbed(0)).ret

\* C15: for HEIGHT = 0 construction succeeds, every append returns TreeFull
\* (none returns Ok) and root() returns the zero digest.
C15_HeightZeroIsTrivial ==
    HEIGHT = 0
        => /\ op = "new" => (size = 0 /\ DOMAIN intermediates = {0})
           /\ calls >= 1 => result = "TreeFull"
           /\ leaves = <<>>
           /\ op = "root" => root_ret = ZERO_DIGEST

C15_Witness ==
    /\ HEIGHT = 0
    /\ calls >= 2
    /\ result = "TreeFull"
    /\ op = "root"
    /\ root_ret = ZERO_DIGEST

\* C16: once an append has returned TreeFull, every later append on the same
\* accumulator returns TreeFull.
C16_TreeFullAbsorbing ==
    [][(result = "TreeFull" /\ op' = "append") => result' = "TreeFull"]_vars

C16_Witness ==
    /\ HEIGHT >= 1
    /\ op = "append"
    /\ result = "TreeFull"
    /\ Len(leaves) = max_leaves(HEIGHT)
    /\ calls = Len(leaves) + 2
    /\ size = calls

\* C17: the cache slot written by a successful append, 2^H + size - 2, lies in
\* [2^H - 1, 2^(H+1) - 3], inside the 2^(H+1) - 1 allocated slots; it is the
\* slot 2^H - 1 + (number of leaves accepted before), so two successful
\* appends never write the same slot and slot 2^(H+1) - 2 is never written.
C17_CacheWriteInBounds ==
    [][(op' = "append" /\ result' = "Ok")
          => LET idx == leaf_index(HEIGHT, size') IN
             /\ idx \in DOMAIN intermediates
             /\ DOMAIN intermediates = 0..(Shl(1, HEIGHT + 1) - 2)
             /\ Shl(1, HEIGHT) - 1 <= idx
             /\ idx <= Shl(1, HEIGHT + 1) - 3
             /\ idx = Shl(1, HEIGHT) - 1 + Len(leaves)
             /\ intermediates'[idx] = leaves'[Len(leaves')]
             /\ \A i \in DOMAIN intermediates :
                   i # idx => intermediates'[i] = intermediates[i]]_vars

C17_Witness ==
    /\ HEIGHT >= 2
    /\ op = "append"
    /\ result = "Ok"
    /\ size = max_leaves(HEIGHT)
    /\ leaf_index(HEIGHT, size) = Shl(1, HEIGHT + 1) - 3
    /\ \A i \in 1..Len(leaves) :
          /\ leaves[i] # ZERO_DIGEST
          /\ intermediates[Shl(1, HEIGHT) - 2 + i] = leaves[i]

\* C18: in a state with size < 2^H - 1, a successful append of the zero
\* digest increments size and leaves the digest returned by root() unchanged.
C18_ZeroLeafKeepsRoot ==
    [][(op' = "append" /\ result' = "Ok" /\ leaves'[Len(leaves')] = ZERO_DIGEST)
          => /\ size' = size + 1
             /\ root(this').ret = root(this).ret]_vars

C18_Witness ==
    /\ HEIGHT >= 2
    /\ op = "append"
    /\ result = "Ok"
    /\ Len(leaves) >= 2
    /\ leaves[1] # ZERO_DIGEST
    /\ leaves[Len(leaves)] = ZERO_DIGEST
    /\ root_ret = root(this).ret
    /\ root_ret = DirectRoot(HEIGHT, SubSeq(leaves, 1, Len(leaves) - 1))

====
